---- MODULE Spec2Model ----
(***************************************************************************)
(* A model of the commitmessage framework: the Directory/File tree of      *)
(* commitmessage/model.py, Model's tree construction and queries, the      *)
(* Controller's process() pipeline and the Subversion controller's         *)
(* handlers (commitmessage/controllers/svn.py).                            *)
(*                                                                         *)
(* A Python string is a sequence of one-character strings, so that         *)
(* split, join, slicing, comparison and the path regular expression are    *)
(* computed character by character as Python computes them.                *)
(***************************************************************************)
EXTENDS Integers, Sequences, FiniteSets, Bags, TLC

VARIABLES
    dirs,       \* the Directory objects of the Model; dirs[1] is Model._rootDirectory.
                \* An object's identity is its index.
    last,       \* the last call made on the model: which, how it ended, what it returned
    pc,         \* where Controller.process() is
    overrides,  \* whether the controller's class overrides _populateModel
    matchwithrepoprefix,    \* the controller's option of that name
    ncalls,     \* the calls the population has made on the model
    key,        \* _executeViews' gcd before the repository's name is put in front
    routed,     \* the path _executeViews gives config.getModulesForPath
    matched,    \* how many views the matching modules have, in the order of the loops
    events      \* history: what process() has done so far

model == <<dirs, last>>
ctl == <<pc, overrides, matchwithrepoprefix, ncalls, key, routed, matched, events>>
vars == <<dirs, last, pc, overrides, matchwithrepoprefix, ncalls, key, routed, matched, events>>

(***************************************************************************)
(* Bounds                                                                  *)
(***************************************************************************)
\* Longest path string given to an operation that takes a path.
MaxPathLen == 5
\* Most Directory objects in the tree besides the root.
MaxDirs == 3
\* Most File objects a directory is given through File's constructor.
MaxFiles == 3
\* Longest name given to File's constructor.
MaxNameLen == 1
\* Most calls one run of process() populates the model with.
MaxCalls == 2
\* Most views the modules matching a commit have together.
MaxViews == 2

\* The lines of a diff's body are at most this many.
MaxBody == 2

(***************************************************************************)
(* Python strings                                                          *)
(***************************************************************************)
SLASH == "/"

\* The characters path arguments are made of.
PathChars == {"/", "a"}

\* Every string over chars of length at most n.
StringsUpTo(chars, n) == UNION {[1..k -> chars] : k \in 0..n}

PathStrings == StringsUpTo(PathChars, MaxPathLen)

\* ord(c), for the characters of the model.
Ord(c) == CASE c = "/" -> 47 [] c = "a" -> 97 [] c = "b" -> 98

\* s < t for Python strings: lexicographic by code point, a proper prefix first.
RECURSIVE StrLessFrom(_, _, _)
StrLessFrom(s, t, i) ==
    IF i > Len(t) THEN FALSE
    ELSE IF i > Len(s) THEN TRUE
    ELSE IF Ord(s[i]) < Ord(t[i]) THEN TRUE
    ELSE IF Ord(s[i]) > Ord(t[i]) THEN FALSE
    ELSE StrLessFrom(s, t, i + 1)

StrLess(s, t) == StrLessFrom(s, t, 1)

StrLeq(s, t) == s = t \/ StrLess(s, t)

\* s.split('/'): the pieces between the slashes, empty pieces kept.
RECURSIVE SplitFrom(_, _, _, _)
SplitFrom(s, i, piece, pieces) ==
    IF i > Len(s) THEN Append(pieces, piece)
    ELSE IF s[i] = SLASH THEN SplitFrom(s, i + 1, <<>>, Append(pieces, piece))
    ELSE SplitFrom(s, i + 1, Append(piece, s[i]), pieces)

split(s) == SplitFrom(s, 1, <<>>, <<>>)

\* '/'.join(parts)
RECURSIVE join(_)
join(parts) ==
    IF Len(parts) = 0 THEN <<>>
    ELSE IF Len(parts) = 1 THEN parts[1]
    ELSE parts[1] \o <<SLASH>> \o join(Tail(parts))

\* parts[0:-k]: all but the last k elements, empty when there are no more than k.
DropLast(parts, k) ==
    IF Len(parts) <= k THEN <<>> ELSE SubSeq(parts, 1, Len(parts) - k)

\* s.find('/') != -1
HasSlash(s) == \E i \in 1..Len(s) : s[i] = SLASH

startswithSlash(s) == Len(s) > 0 /\ s[1] = SLASH

endswithSlash(s) == Len(s) > 0 /\ s[Len(s)] = SLASH

\* _re_path.match(path), _re_path = '^/([^/]+/)*$': a slash, then any number of
\* non-empty slash-free pieces each followed by a slash.
RECURSIVE RePathFrom(_, _, _)
RePathFrom(s, i, inPiece) ==
    IF i > Len(s) THEN ~inPiece
    ELSE IF s[i] = SLASH THEN inPiece /\ RePathFrom(s, i + 1, FALSE)
    ELSE RePathFrom(s, i + 1, TRUE)

re_path_match(s) == Len(s) > 0 /\ s[1] = SLASH /\ RePathFrom(s, 2, FALSE)

(***************************************************************************)
(* Directory                                                               *)
(***************************************************************************)
\* How a call ends.
OK == "ok"
CmException == "CmException"
IndexError == "IndexError"

\* The None a lookup returns; object indices start at 1.
None == 0

\* Directory.__init__'s check of its path.
DirectoryPathValid(path) ==
    ~(path = <<>> \/ ~startswithSlash(path) \/ ~endswithSlash(path))
    /\ re_path_match(path)

\* The fields Directory.__init__ sets.
NewDirectory(path, action) ==
    [path |-> path, action |-> action, files |-> <<>>, subdirectories |-> <<>>]

\* Directory.name
DirectoryName(path) ==
    IF path = <<SLASH>> THEN <<SLASH>>
    ELSE LET parts == split(path) IN parts[Len(parts) - 1]

\* Directory.hasSubdirectory looking at the first subdirectory only.
hasSubdirectoryFirstOnly(tree, d, name) ==
    /\ Len(tree[d].subdirectories) > 0
    /\ DirectoryName(tree[tree[d].subdirectories[1]].path) = name

hasSubdirectory(tree, d, name) ==
    \E i \in 1..Len(tree[d].subdirectories) :
        DirectoryName(tree[tree[d].subdirectories[i]].path) = name

\* Directory.subdirectory: the first subdirectory of that name, or None.
subdirectory(tree, d, name) ==
    LET subs == tree[d].subdirectories
        hits == {i \in 1..Len(subs) : DirectoryName(tree[subs[i]].path) = name}
    IN IF hits = {} THEN None
       ELSE subs[CHOOSE i \in hits : \A j \in hits : i <= j]

\* Directory.addSubdirectory, for the object at index sub.
addSubdirectory(tree, d, sub) ==
    [tree EXCEPT ![d].subdirectories = Append(@, sub)]

(***************************************************************************)
(* Model.directory                                                         *)
(***************************************************************************)
\* The body of Model.directory's loop, from part i on.
RECURSIVE directoryLoop(_, _, _, _)
directoryLoop(tree, cur, parts, i) ==
    IF i > Len(parts) THEN [tree |-> tree, outcome |-> OK, ret |-> cur]
    ELSE IF parts[i] = <<>> THEN directoryLoop(tree, cur, parts, i + 1)
    ELSE IF hasSubdirectory(tree, cur, parts[i])
         THEN directoryLoop(tree, subdirectory(tree, cur, parts[i]), parts, i + 1)
    ELSE LET newpath == tree[cur].path \o parts[i] \o <<SLASH>>
             new == Len(tree) + 1
         IN IF ~DirectoryPathValid(newpath)
            THEN [tree |-> tree, outcome |-> CmException, ret |-> None]
            ELSE directoryLoop(
                     addSubdirectory(Append(tree, NewDirectory(newpath, "none")), cur, new),
                     new, parts, i + 1)

\* Model.directory(path): the tree afterwards, how the call ended and the
\* Directory it returned.
directory(tree, path) ==
    IF Len(path) = 0
    THEN [tree |-> tree, outcome |-> IndexError, ret |-> None]
    ELSE IF path[1] # SLASH \/ path[Len(path)] # SLASH
    THEN [tree |-> tree, outcome |-> CmException, ret |-> None]
    ELSE IF path = <<SLASH>>
    THEN [tree |-> tree, outcome |-> OK, ret |-> 1]
    ELSE directoryLoop(tree, 1, split(path), 1)

(***************************************************************************)
(* File and Directory.addFile                                              *)
(***************************************************************************)
\* list.sort(key=lambda x: x.name) is stable: x goes behind every element whose
\* name is not greater than its own.
RECURSIVE InsertByName(_, _)
InsertByName(sorted, x) ==
    IF Len(sorted) = 0 THEN <<x>>
    ELSE IF StrLess(x.name, sorted[Len(sorted)].name)
         THEN Append(InsertByName(SubSeq(sorted, 1, Len(sorted) - 1), x), sorted[Len(sorted)])
         ELSE Append(sorted, x)

RECURSIVE SortByName(_)
SortByName(fs) ==
    IF Len(fs) = 0 THEN <<>>
    ELSE InsertByName(SortByName(SubSeq(fs, 1, Len(fs) - 1)), fs[Len(fs)])

\* Directory.addFile without its sort.
addFileUnsorted(tree, d, f) ==
    [tree EXCEPT ![d].files = Append(@, f)]

\* Directory.addFile: append, then sort the whole list by name.
addFile(tree, d, f) ==
    [tree EXCEPT ![d].files = SortByName(Append(@, f))]

\* A File's delta and diff: <<>> while the field is None, <<v>> once it is v.
Unset == <<>>

Value(v) == <<v>>

\* The fields File.__init__ sets: no delta and no diff yet.
FileFields(name, action) ==
    [name |-> name, action |-> action, delta |-> Unset, diff |-> Unset]

\* File(name, directory, action): the File registers itself in its directory.
NewFile(tree, name, d, action) ==
    IF HasSlash(name)
    THEN [tree |-> tree, outcome |-> CmException]
    ELSE [tree |-> addFile(tree, d, FileFields(name, action)),
          outcome |-> OK]

\* Directory.file(name): the position of the first file of that name, or None.
directoryFile(tree, d, name) ==
    LET hits == {i \in 1..Len(tree[d].files) : tree[d].files[i].name = name}
    IN IF hits = {} THEN None ELSE CHOOSE i \in hits : \A j \in hits : i <= j

\* File.path
FilePath(tree, d, i) == tree[d].path \o tree[d].files[i].name

(***************************************************************************)
(* Model.addDirectory, Model.file, Model.files, greatestCommonDirectory    *)
(***************************************************************************)
\* Model.addDirectory(Directory(path, action)): the constructor, then the call.
addDirectory(tree, path, action) ==
    IF ~DirectoryPathValid(path)
    THEN [tree |-> tree, outcome |-> CmException, ret |-> None]
    ELSE LET parentPath == join(DropLast(split(path), 2)) \o <<SLASH>>
             r == directory(tree, parentPath)
             new == Len(r.tree) + 1
         IN IF r.outcome # OK THEN r
            ELSE IF hasSubdirectory(r.tree, r.ret, DirectoryName(path))
            THEN [tree |-> r.tree, outcome |-> OK, ret |-> None]
            ELSE [tree |-> addSubdirectory(Append(r.tree, NewDirectory(path, action)),
                                           r.ret, new),
                  outcome |-> OK, ret |-> None]

\* Model.file(path): ret is the parent Directory, idx the file's position in it.
file(tree, path) ==
    IF path = <<>>
    THEN [tree |-> tree, outcome |-> CmException, ret |-> None, idx |-> None]
    ELSE IF path[1] # SLASH \/ path[Len(path)] = SLASH
    THEN [tree |-> tree, outcome |-> CmException, ret |-> None, idx |-> None]
    ELSE LET parts == split(path)
             parentDirectoryPath == join(DropLast(parts, 1)) \o <<SLASH>>
             r == directory(tree, parentDirectoryPath)
         IN IF r.outcome # OK
            THEN [tree |-> r.tree, outcome |-> r.outcome, ret |-> None, idx |-> None]
            ELSE [tree |-> r.tree, outcome |-> OK, ret |-> r.ret,
                  idx |-> directoryFile(r.tree, r.ret, parts[Len(parts)])]

\* Model._files(directory, None): the directory's files, then each subdirectory's.
RECURSIVE filesUnder(_, _)
RECURSIVE filesUnderEach(_, _, _)
filesUnder(tree, d) ==
    [i \in 1..Len(tree[d].files) |-> [directory |-> d, idx |-> i]]
    \o filesUnderEach(tree, tree[d].subdirectories, 1)

filesUnderEach(tree, subs, i) ==
    IF i > Len(subs) THEN <<>>
    ELSE filesUnder(tree, subs[i]) \o filesUnderEach(tree, subs, i + 1)

\* Model.files()
files(tree) == filesUnder(tree, 1)

\* Model.greatestCommonDirectory's loop without the test of the files.
RECURSIVE gcdFromIgnoringFiles(_, _)
gcdFromIgnoringFiles(tree, d) ==
    IF /\ tree[d].action = "none"
       /\ Len(tree[d].subdirectories) = 1
    THEN gcdFromIgnoringFiles(tree, tree[d].subdirectories[1])
    ELSE d

\* Model.greatestCommonDirectory's loop, at directory d.
RECURSIVE gcdFrom(_, _)
gcdFrom(tree, d) ==
    IF /\ tree[d].action = "none"
       /\ Len(tree[d].subdirectories) = 1
       /\ Len(tree[d].files) = 0
    THEN gcdFrom(tree, tree[d].subdirectories[1])
    ELSE d

greatestCommonDirectory(tree) == tree[gcdFrom(tree, 1)].path

(***************************************************************************)
(* SvnController                                                           *)
(***************************************************************************)
\* The first letters of the lines of 'svnlook changed'.
\* The first letters of the lines of 'svnlook changed' that are tried; "X" is
\* a letter getAction does not know.
ChangeLetters == {"A", "D", "X"}

NameError == "NameError"

\* SvnController.getAction: the action, or "" when it raises. Its raise
\* statement names CmException, which svn.py never imports: a NameError.
getAction(changeLetter) ==
    CASE changeLetter = "A" -> "added"
      [] changeLetter = "D" -> "removed"
      [] changeLetter = "U" -> "modified"
      [] OTHER -> ""

Actions == {getAction(l) : l \in ChangeLetters} \ {""}

\* SvnController.handleDirectory(action, path): dir.action(action) gives the
\* Directory the action.
handleDirectory(tree, action, path) ==
    LET r == directory(tree, path)
    IN IF r.outcome # OK THEN [tree |-> r.tree, outcome |-> r.outcome, ret |-> None]
       ELSE [tree |-> [r.tree EXCEPT ![r.ret].action = action],
             outcome |-> OK, ret |-> r.ret]

\* SvnController.handleFile(action, path)
handleFile(tree, action, path) ==
    LET parts == split(path)
        name == parts[Len(parts)]
        dirPath == <<SLASH>> \o join(DropLast(parts, 1)) \o <<SLASH>>
        r == directory(tree, dirPath)
    IN IF r.outcome # OK THEN [tree |-> r.tree, outcome |-> r.outcome, ret |-> None]
       ELSE LET f == NewFile(r.tree, name, r.ret, action)
            IN [tree |-> f.tree, outcome |-> f.outcome, ret |-> r.ret]

\* One line of 'svnlook changed' in SvnController.populateModel's loop, its
\* path being target.
populateChange(tree, letter, target) ==
    IF getAction(letter) = ""
    THEN [tree |-> tree, outcome |-> NameError, ret |-> None]
    ELSE IF Len(target) = 0
    THEN [tree |-> tree, outcome |-> IndexError, ret |-> None]
    ELSE LET t == IF target # <<SLASH>> /\ target[1] # SLASH
                  THEN <<SLASH>> \o target ELSE target
         IN IF endswithSlash(t) THEN handleDirectory(tree, getAction(letter), t)
            ELSE handleFile(tree, getAction(letter), t)

(***************************************************************************)
(* SvnController.saveDiffs                                                 *)
(***************************************************************************)
NL == "\n"

TAB == "\t"

AttributeError == "AttributeError"

\* s.split(sep), sep one character: the pieces between, empty pieces kept.
RECURSIVE SplitOnFrom(_, _, _, _, _)
SplitOnFrom(s, sep, i, piece, pieces) ==
    IF i > Len(s) THEN Append(pieces, piece)
    ELSE IF s[i] = sep THEN SplitOnFrom(s, sep, i + 1, <<>>, Append(pieces, piece))
    ELSE SplitOnFrom(s, sep, i + 1, Append(piece, s[i]), pieces)

splitOn(s, sep) == SplitOnFrom(s, sep, 1, <<>>, <<>>)

\* line.startswith(prefix)
startswith(line, prefix) ==
    Len(prefix) <= Len(line) /\ SubSeq(line, 1, Len(prefix)) = prefix

\* line[0:n]
Slice(line, n) == SubSeq(line, 1, IF Len(line) < n THEN Len(line) ELSE n)

Modified == <<"M", "o", "d", "i", "f", "i", "e", "d", ":", " ">>

Copied == <<"C", "o", "p", "i", "e", "d", ":", " ">>

Deleted == <<"D", "e", "l", "e", "t", "e", "d", ":", " ">>

PlusHeader == <<"+", "+", "+", " ">>

MinusHeader == <<"-", "-", "-", " ">>

\* The test that starts a new diff in saveDiffs' first loop.
StartsDiff(line) ==
    \/ startswith(line, Modified)
    \/ startswith(line, Copied)
    \/ startswith(line, Deleted)

\* saveDiffs' first loop from line i on. currentDiff is <<>> while it is None:
\* a diff holds its first line at least.
RECURSIVE splitDiffs(_, _, _, _)
splitDiffs(lines, i, currentDiff, diffs) ==
    IF i > Len(lines)
    THEN IF currentDiff # <<>> THEN Append(diffs, currentDiff) ELSE diffs
    ELSE IF StartsDiff(lines[i])
    THEN splitDiffs(lines, i + 1, <<lines[i]>>,
                    IF currentDiff # <<>> THEN Append(diffs, currentDiff) ELSE diffs)
    ELSE splitDiffs(lines, i + 1,
                    IF currentDiff # <<>> THEN Append(currentDiff, lines[i]) ELSE <<>>,
                    diffs)

\* saveDiffs' counting loop over diff[1:], from the diff's i-th line on.
RECURSIVE countDiff(_, _, _, _, _)
countDiff(diff, i, text, added, removed) ==
    IF i > Len(diff) THEN [text |-> text, added |-> added, removed |-> removed]
    ELSE LET line == diff[i]
         IN IF Len(line) > 0 /\ line[1] = "+" /\ Slice(line, 4) # PlusHeader
            THEN countDiff(diff, i + 1, text \o line, added + 1, removed)
            ELSE IF Len(line) > 0 /\ line[1] = "-" /\ Slice(line, 4) # MinusHeader
            THEN countDiff(diff, i + 1, text \o line, added, removed + 1)
            ELSE countDiff(diff, i + 1, text \o line, added, removed)

\* '%s' % n for a natural number n
RECURSIVE str(_)
str(n) ==
    LET digit == <<"0", "1", "2", "3", "4", "5", "6", "7", "8", "9">>[(n % 10) + 1]
    IN IF n < 10 THEN <<digit>> ELSE Append(str(n \div 10), digit)

\* '+%s -%s' % (added, removed)
formatDelta(added, removed) == <<"+">> \o str(added) \o <<" ", "-">> \o str(removed)

\* saveDiffs' second loop at one diff: the file's path from the diff's fourth
\* line, the counts, then the diff and the delta given to the File that
\* Model.file finds.
saveDiff(tree, diff) ==
    IF Len(diff) < 4
    THEN [tree |-> tree, outcome |-> IndexError]
    ELSE LET words == splitOn(SubSeq(diff[4], 1, Len(diff[4]) - 1), " ")
         IN IF Len(words) < 2
            THEN [tree |-> tree, outcome |-> IndexError]
            ELSE LET filePath == <<SLASH>> \o splitOn(words[2], TAB)[1]
                     c == countDiff(diff, 2, <<>>, 0, 0)
                     r == file(tree, filePath)
                 IN IF r.outcome # OK THEN [tree |-> r.tree, outcome |-> r.outcome]
                    ELSE IF r.idx = None
                    THEN [tree |-> r.tree, outcome |-> AttributeError]
                    ELSE [tree |-> [r.tree EXCEPT
                                       ![r.ret].files[r.idx].diff = Value(c.text),
                                       ![r.ret].files[r.idx].delta =
                                           Value(formatDelta(c.added, c.removed))],
                          outcome |-> OK]

\* saveDiffs' second loop from the i-th diff on: an exception ends it.
RECURSIVE saveEach(_, _, _)
saveEach(tree, diffs, i) ==
    IF i > Len(diffs) THEN [tree |-> tree, outcome |-> OK]
    ELSE LET r == saveDiff(tree, diffs[i])
         IN IF r.outcome # OK THEN r ELSE saveEach(r.tree, diffs, i + 1)

\* SvnController.saveDiffs(lines)
saveDiffs(tree, lines) == saveEach(tree, splitDiffs(lines, 1, <<>>, <<>>), 1)

(***************************************************************************)
(* Controller                                                              *)
(***************************************************************************)
\* Model.repo, which the population sets.
Repo == <<"r">>

\* Controller.matchWithRepoPrefix
matchWithRepoPrefix(option) == IF option = "yes" THEN TRUE ELSE FALSE

\* Controller._executeViews, its first lines: the greatest common directory,
\* with the file's name behind it when the model has one file.
routingKey(tree) ==
    LET gcd == greatestCommonDirectory(tree)
        fs == files(tree)
    IN IF Len(fs) = 1
       THEN gcd \o tree[fs[1].directory].files[fs[1].idx].name
       ELSE gcd

\* Controller._executeViews: the path given to config.getModulesForPath.
routedPath(tree, option) ==
    IF matchWithRepoPrefix(option)
    THEN <<SLASH>> \o Repo \o routingKey(tree)
    ELSE routingKey(tree)

\* Controller.process, after _populateModel has returned: what
\* _stopProcessForNow's answer leads to.
AfterStopIgnored(stop) == "routing"

AfterStop(stop) == IF stop THEN "stopped" ELSE "routing"

\* Controller._executeViews' loops at a view whose execute() has been called:
\* an exception leaves the loops and process().
AfterExecute(raised) == IF raised THEN "view_failed" ELSE "executing"

(***************************************************************************)
(* The model as its callers drive it                                       *)
(***************************************************************************)
\* Model.__init__
InitModel == <<NewDirectory(<<SLASH>>, "none")>>

Call(op, outcome, ret, idx) ==
    [op |-> op, outcome |-> outcome, ret |-> ret, idx |-> idx]

\* Controller.__init__: a new Model, the options' defaults.
InitController(overriding, option) ==
    /\ dirs = InitModel
    /\ last = Call("init", OK, None, None)
    /\ pc = "created"
    /\ overrides = overriding
    /\ matchwithrepoprefix = option
    /\ ncalls = 0
    /\ key = <<>>
    /\ routed = <<>>
    /\ matched = 0
    /\ events = <<>>

Init == InitController(TRUE, "yes")

DirCount(tree) == Len(tree) - 1

RECURSIVE SumLens(_, _)
SumLens(tree, i) ==
    IF i > Len(tree) THEN 0 ELSE Len(tree[i].files) + SumLens(tree, i + 1)

FileCount(tree) == SumLens(tree, 1)

\* The paths 'svnlook changed' prints: relative to the repository's root (the
\* root itself is "/"), no empty piece inside; populateModel puts the leading
\* slash before them.
NoEmptyPiece(s) == \A i \in 1..(Len(s) - 1) : ~(s[i] = SLASH /\ s[i + 1] = SLASH)

ChangeTargets ==
    {<<SLASH>>} \cup {t \in PathStrings : /\ Len(t) > 0
                                         /\ Len(t) < MaxPathLen
                                         /\ t[1] # SLASH
                                         /\ NoEmptyPiece(t)}

\* The paths callers that build well-formed paths give Model.directory.
WellFormedPaths == {p \in PathStrings : re_path_match(p)}

\* The names given to File's constructor.
NameChars == {"/", "a", "b"}

FileNames == StringsUpTo(NameChars, MaxNameLen)

\* self.model.directory(path)
DirectoryCall ==
    \E path \in PathStrings :
        \E r \in {directory(dirs, path)} :
        /\ DirCount(r.tree) <= MaxDirs
        /\ dirs' = r.tree
        /\ last' = Call("directory", r.outcome, r.ret, None)
        /\ UNCHANGED ctl

\* self.model.addDirectory(Directory(path, action))
AddDirectoryCall ==
    \E path \in PathStrings, action \in Actions \cup {"none"} :
        \E r \in {addDirectory(dirs, path, action)} :
        /\ DirCount(r.tree) <= MaxDirs
        /\ dirs' = r.tree
        /\ last' = Call("addDirectory", r.outcome, None, None)
        /\ UNCHANGED ctl

\* self.model.file(path)
FileCall ==
    \E path \in PathStrings :
        \E r \in {file(dirs, path)} :
        /\ DirCount(r.tree) <= MaxDirs
        /\ dirs' = r.tree
        /\ last' = Call("file", r.outcome, r.ret, r.idx)
        /\ UNCHANGED ctl

\* File(name, directory, action), directory being a Directory of the model
NewFileCall ==
    \E name \in FileNames, d \in 1..Len(dirs), action \in Actions :
        \E r \in {NewFile(dirs, name, d, action)} :
        /\ FileCount(r.tree) <= MaxFiles
        /\ dirs' = r.tree
        /\ last' = Call("File", r.outcome, d, None)
        /\ UNCHANGED ctl

\* Model.directory alone.
NextDirectory == DirectoryCall

SpecDirectory == Init /\ [][NextDirectory]_vars

\* The tree-building calls of Model.
NextTree == DirectoryCall \/ AddDirectoryCall \/ FileCall

SpecTree == Init /\ [][NextTree]_vars

\* File objects constructed in the directories of the model.
NextFiles == NewFileCall

SpecFiles == Init /\ [][NextFiles]_vars

(***************************************************************************)
(* Controller.process()                                                    *)
(***************************************************************************)
\* process() calls _populateModel: Controller's own raises, a subclass's
\* starts to populate the model.
Process ==
    /\ pc = "created"
    /\ IF overrides
       THEN /\ pc' = "populating"
            /\ events' = events
       ELSE /\ pc' = "populate_failed"
            /\ events' = Append(events, "populate_raised")
    /\ UNCHANGED <<model, overrides, matchwithrepoprefix, ncalls, key, routed, matched>>

\* The population handles one changed path as SvnController.populateModel
\* does; an exception leaves process().
PopulateChange ==
    /\ pc = "populating"
    /\ ncalls < MaxCalls
    /\ \E letter \in ChangeLetters, target \in ChangeTargets :
        \E r \in {populateChange(dirs, letter, target)} :
        /\ dirs' = r.tree
        /\ last' = Call("change", r.outcome, r.ret, None)
        /\ IF r.outcome = OK
           THEN /\ pc' = "populating"
                /\ events' = events
           ELSE /\ pc' = "populate_failed"
                /\ events' = Append(events, "populate_raised")
    /\ ncalls' = ncalls + 1
    /\ UNCHANGED <<overrides, matchwithrepoprefix, key, routed, matched>>

\* The population asks the model for a directory, by a well-formed path.
PopulateDirectory ==
    /\ pc = "populating"
    /\ ncalls < MaxCalls
    /\ \E path \in WellFormedPaths :
        \E r \in {directory(dirs, path)} :
        /\ dirs' = r.tree
        /\ last' = Call("directory", r.outcome, r.ret, None)
        /\ IF r.outcome = OK
           THEN /\ pc' = "populating"
                /\ events' = events
           ELSE /\ pc' = "populate_failed"
                /\ events' = Append(events, "populate_raised")
    /\ ncalls' = ncalls + 1
    /\ UNCHANGED <<overrides, matchwithrepoprefix, key, routed, matched>>

\* _populateModel returns.
PopulateReturn ==
    /\ pc = "populating"
    /\ pc' = "populated"
    /\ events' = Append(events, "populated")
    /\ UNCHANGED <<model, overrides, matchwithrepoprefix, ncalls, key, routed, matched>>

\* if self._stopProcessForNow(): return
StopProcessForNow ==
    /\ pc = "populated"
    /\ \E stop \in BOOLEAN :
        /\ pc' = AfterStop(stop)
        /\ events' = Append(events, IF stop THEN "stop" ELSE "continue")
    /\ UNCHANGED <<model, overrides, matchwithrepoprefix, ncalls, key, routed, matched>>

\* _executeViews up to its loops: the path, and the views of the modules the
\* configuration matches to it.
ExecuteViews ==
    /\ pc = "routing"
    /\ key' = routingKey(dirs)
    /\ routed' = routedPath(dirs, matchwithrepoprefix)
    /\ \E n \in 0..MaxViews : matched' = n
    /\ pc' = "executing"
    /\ UNCHANGED <<model, overrides, matchwithrepoprefix, ncalls, events>>

Executions == Len(SelectSeq(events, LAMBDA e : e = "execute"))

\* view.execute() of the next view: it returns or raises.
ViewExecute ==
    /\ pc = "executing"
    /\ Executions < matched
    /\ \E raised \in BOOLEAN :
        /\ pc' = AfterExecute(raised)
        /\ events' = IF raised THEN events \o <<"execute", "view_raised">>
                     ELSE Append(events, "execute")
    /\ UNCHANGED <<model, overrides, matchwithrepoprefix, ncalls, key, routed, matched>>

\* The loops are through: process() returns.
ViewsDone ==
    /\ pc = "executing"
    /\ Executions = matched
    /\ pc' = "dispatched"
    /\ UNCHANGED <<model, overrides, matchwithrepoprefix, ncalls, key, routed, matched, events>>

InitProcess ==
    \E overriding \in BOOLEAN, option \in {"yes", "no"} :
        InitController(overriding, option)

NextProcess ==
    \/ Process
    \/ PopulateChange
    \/ PopulateDirectory
    \/ PopulateReturn
    \/ StopProcessForNow
    \/ ExecuteViews
    \/ ViewExecute
    \/ ViewsDone

SpecProcess == InitProcess /\ [][NextProcess]_vars

(***************************************************************************)
(* The changed files of a commit and their diffs                           *)
(***************************************************************************)
\* The paths of the changed files, as svnlook prints them.
DiffPaths == {<<"a">>, <<"a", "/", "a">>}

\* The lines of a diff's body: added and removed lines, some of whose text
\* begins with "++" or "--", and a context line.
BodyLines ==
    { <<"+", "x", NL>>, <<"+", "+", "+", "x", NL>>, <<"+", "+", "+", " ", "x", NL>>,
      <<"-", "x", NL>>, <<"-", "-", "-", "x", NL>>, <<"-", "-", "-", " ", "x", NL>>,
      <<" ", "x", NL>> }

Bodies == UNION {[1..k -> BodyLines] : k \in 0..MaxBody}

\* A file's part of svnlook diff's output: the line that names the file, the
\* rule, the two header lines, the body.
DiffBlock(b) ==
    << b.marker \o b.path \o <<NL>>,
       <<"=", "=", "=", "=", NL>>,
       MinusHeader \o b.path \o <<TAB, "(", "r", "e", "v", " ", "1", ")", NL>>,
       PlusHeader \o b.path \o <<TAB, "(", "r", "e", "v", " ", "2", ")", NL>> >>
    \o b.body

RECURSIVE DiffLines(_)
DiffLines(blocks) ==
    IF Len(blocks) = 0 THEN <<>>
    ELSE DiffBlock(blocks[1]) \o DiffLines(Tail(blocks))

\* svnlook diff's outputs: one file's diff, or two files' diffs, or nothing.
DiffInputs ==
    LET first == [marker : {Modified, Copied, Deleted}, path : DiffPaths, body : Bodies]
        second == [marker : {Modified}, path : DiffPaths,
                   body : {<<>>, << <<"+", "x", NL>> >>}]
    IN {<<>>} \cup {<<b>> : b \in first}
              \cup {<<b, c>> : <<b, c>> \in first \X second}

\* populateModel's loop at the line of a changed file that 'svnlook changed'
\* has not listed before.
ChangedFile ==
    /\ last.op \in {"init", "change"}
    /\ last.outcome = OK
    /\ \E letter \in ChangeLetters, target \in DiffPaths :
        /\ file(dirs, <<SLASH>> \o target).idx = None
        /\ \E r \in {populateChange(dirs, letter, target)} :
            /\ dirs' = r.tree
            /\ last' = Call("change", r.outcome, r.ret, None)
    /\ UNCHANGED ctl

\* self.saveDiffs(self.svnlook('diff')), populateModel's last statement
SaveDiffs ==
    /\ last.op \in {"init", "change"}
    /\ last.outcome = OK
    /\ \E blocks \in DiffInputs :
        \E r \in {saveDiffs(dirs, DiffLines(blocks))} :
            /\ dirs' = r.tree
            /\ last' = Call("saveDiffs", r.outcome, None, None)
    /\ UNCHANGED ctl

NextDiffs == ChangedFile \/ SaveDiffs

SpecDiffs == Init /\ [][NextDiffs]_vars

(***************************************************************************)
(* Properties                                                              *)
(***************************************************************************)
PathSet(tree) == {tree[i].path : i \in 1..Len(tree)}

NoTwoSharePath(tree) ==
    \A i, j \in 1..Len(tree) : i # j => tree[i].path # tree[j].path

\* The paths of a well-formed path's directory and of the directories above it.
AncestorPaths(p) == {SubSeq(p, 1, k) : k \in {i \in 1..Len(p) : p[i] = SLASH}}

IsPrefix(s, t) == Len(s) <= Len(t) /\ SubSeq(t, 1, Len(s)) = s

\* This step is a call directory(p).
DirectoryStep(p) ==
    /\ last'.op = "directory"
    /\ \E r \in {directory(dirs, p)} :
        dirs' = r.tree /\ last' = Call("directory", r.outcome, r.ret, None)

\* This step is a call file(p).
FileStep(p) ==
    /\ last'.op = "file"
    /\ \E r \in {file(dirs, p)} :
        dirs' = r.tree /\ last' = Call("file", r.outcome, r.ret, r.idx)

\* C1, in every state: no two Directory objects of the tree have the same
\* path, and directory(p) for a path p that is in the tree returns the object
\* that has this path and leaves the tree as it is.
C1_State ==
    /\ NoTwoSharePath(dirs)
    /\ \A p \in WellFormedPaths :
        p \in PathSet(dirs) =>
            \A r \in {directory(dirs, p)} :
                r.outcome = OK /\ r.tree = dirs /\ dirs[r.ret].path = p

\* C1, in every call directory(p) with a well-formed p: the call returns the
\* Directory of path p, the objects there were stay, and the paths of the tree
\* afterwards are those before plus p and the paths above p, each once.
C1_Step ==
    \A p \in WellFormedPaths :
        DirectoryStep(p) =>
            /\ last'.outcome = OK
            /\ dirs'[last'.ret].path = p
            /\ \A i \in 1..Len(dirs) :
                   /\ dirs'[i].path = dirs[i].path
                   /\ dirs'[i].action = dirs[i].action
                   /\ dirs'[i].files = dirs[i].files
                   /\ IsPrefix(dirs[i].subdirectories, dirs'[i].subdirectories)
            /\ PathSet(dirs') = PathSet(dirs) \cup AncestorPaths(p)
            /\ Len(dirs') - Len(dirs) = Cardinality(AncestorPaths(p) \ PathSet(dirs))

\* C1: after any sequence of Model.directory calls the tree holds exactly one
\* Directory per path requested or implied as an ancestor; a repeated request
\* returns the existing Directory and adds none.
C1_OneDirectoryPerPath == []C1_State /\ [][C1_Step]_vars

\* C1's case: directory("/a/") has returned the Directory that an earlier
\* directory("/a/a/") created as an ancestor.
C1_Witness ==
    /\ last.op = "directory"
    /\ last.outcome = OK
    /\ last.ret # None
    /\ dirs[last.ret].path = <<"/", "a", "/">>
    /\ Len(dirs[last.ret].subdirectories) > 0

\* A Directory's path with its last segment removed.
ParentPath(p) == join(DropLast(split(p), 2)) \o <<SLASH>>

\* The Directory objects that have the Directory c among their subdirectories.
ParentsOf(tree, c) ==
    {d \in 1..Len(tree) :
        \E i \in 1..Len(tree[d].subdirectories) : tree[d].subdirectories[i] = c}

\* C2: the root has path "/"; every other Directory of the tree is a
\* subdirectory of exactly one Directory, the one whose path is its own path
\* without the last segment, and its path is that parent's path, its name
\* and "/"; no two Directory objects of the tree have the same path.
C2_StrictPrefixHierarchy ==
    /\ dirs[1].path = <<SLASH>>
    /\ ParentsOf(dirs, 1) = {}
    /\ NoTwoSharePath(dirs)
    /\ \A c \in 2..Len(dirs) :
        /\ dirs[c].path # <<SLASH>>
        /\ Cardinality(ParentsOf(dirs, c)) = 1
        /\ \A d \in ParentsOf(dirs, c) :
            /\ dirs[d].path = ParentPath(dirs[c].path)
            /\ dirs[c].path =
                   dirs[d].path \o DirectoryName(dirs[c].path) \o <<SLASH>>

\* The paths that do not both begin and end with "/".
NotSlashBracketed(p) == p = <<>> \/ ~startswithSlash(p) \/ ~endswithSlash(p)

\* C6: Model.directory raises CmException for every path that does not both
\* begin and end with "/", and leaves the tree as it is.
C6_Step ==
    \A p \in PathStrings :
        (NotSlashBracketed(p) /\ DirectoryStep(p)) =>
            (last'.outcome = CmException /\ dirs' = dirs)

C6_UnbracketedPathFails == [][C6_Step]_vars

\* The paths that begin and end with "/" and have an empty segment between.
HasEmptySegment(p) ==
    /\ ~NotSlashBracketed(p)
    /\ p # <<SLASH>>
    /\ ~re_path_match(p)

\* C7: a path that holds "//" is rejected: Model.directory raises CmException
\* for it, and so does Model.file for a file path whose directory part holds
\* it; the tree stays as it is.
C7_Step ==
    /\ \A p \in PathStrings :
        (HasEmptySegment(p) /\ DirectoryStep(p)) =>
            (last'.outcome = CmException /\ dirs' = dirs)
    /\ \A p \in PathStrings, n \in {<<"a">>} :
        (HasEmptySegment(p) /\ Len(p) < MaxPathLen /\ FileStep(p \o n)) =>
            (last'.outcome = CmException /\ dirs' = dirs)

C7_EmptySegmentFails == [][C7_Step]_vars

\* The three conditions under which greatestCommonDirectory goes on from d.
Descends(tree, d) ==
    /\ tree[d].action = "none"
    /\ Len(tree[d].subdirectories) = 1
    /\ Len(tree[d].files) = 0

\* The Directory objects above d: those whose path is a proper prefix of d's.
Above(tree, d) ==
    {x \in 1..Len(tree) : x # d /\ IsPrefix(tree[x].path, tree[d].path)}

\* d is the first Directory on the walk from the root at which a condition
\* fails: the conditions hold at every Directory above d and not at d.
FirstFailing(tree, d) ==
    /\ \A x \in Above(tree, d) : Descends(tree, x)
    /\ ~Descends(tree, d)

\* C3: greatestCommonDirectory returns the path of the first Directory on the
\* walk from the root into the sole subdirectories at which the action is not
\* "none", or the subdirectories are not exactly one, or there are files.
\* A chain in which only the last Directory has files yields the last
\* Directory's path; a root with files or with several subdirectories
\* yields "/".
C3_FirstFailingDirectory ==
    /\ \E d \in 1..Len(dirs) :
        /\ FirstFailing(dirs, d)
        /\ \A e \in 1..Len(dirs) : FirstFailing(dirs, e) => e = d
        /\ greatestCommonDirectory(dirs) = dirs[d].path
    /\ (Len(dirs[1].files) > 0 \/ Len(dirs[1].subdirectories) > 1) =>
           greatestCommonDirectory(dirs) = <<SLASH>>
    /\ \A c \in 1..Len(dirs) :
        ( /\ Len(dirs[c].files) > 0
          /\ \A d \in 1..Len(dirs) :
              /\ dirs[d].action = "none"
              /\ d # c => Len(dirs[d].files) = 0
              /\ d \in Above(dirs, c) => Len(dirs[d].subdirectories) = 1 )
        => greatestCommonDirectory(dirs) = dirs[c].path

\* C3's case: a chain from the root to "/a/", the only Directory with files,
\* and _executeViews has asked for the greatest common directory.
C3_Witness ==
    /\ pc = "executing"
    /\ Len(dirs) = 2
    /\ Len(dirs[1].files) = 0
    /\ Len(dirs[2].files) = 2
    /\ dirs[2].action = "none"
    /\ greatestCommonDirectory(dirs) = <<"/", "a", "/">>

\* _executeViews has computed the routing key.
KeyComputed == pc \in {"executing", "view_failed", "dispatched"}

\* C4: when the model has exactly one File, the routing key _executeViews
\* computes is that file's full path: its directory's path, then its name.
C4_SingleFileKeyIsFilePath ==
    (KeyComputed /\ Len(files(dirs)) = 1) =>
        key = FilePath(dirs, files(dirs)[1].directory, files(dirs)[1].idx)

\* C5: a view's execute() is called only after the population has returned
\* and _stopProcessForNow has answered false; a run whose population raised,
\* or that was told to stop, has called no view.
C5_ViewsOnlyAfterPopulatedAndNotStopped ==
    /\ \A i \in 1..Len(events) :
        events[i] = "execute" =>
            /\ \E j, k \in 1..(i - 1) :
                j < k /\ events[j] = "populated" /\ events[k] = "continue"
            /\ \A m \in 1..Len(events) :
                events[m] \notin {"populate_raised", "stop"}
    /\ pc \in {"populate_failed", "stopped"} => Executions = 0
    /\ pc \in {"routing", "executing", "view_failed", "dispatched"} =>
           /\ Len(events) >= 2
           /\ events[1] = "populated"
           /\ events[2] = "continue"

\* C5's case: a run that populated the model, was not stopped and has called
\* every matched view.
C5_Witness ==
    /\ pc = "dispatched"
    /\ Executions = MaxViews
    /\ Len(dirs) > 1

\* C8: when one of the matched views raises in execute(), the other matched
\* views are executed all the same: a run that has left _executeViews has
\* called execute() on every matched view.
C8_EveryMatchedViewExecuted ==
    pc \in {"view_failed", "dispatched"} => Executions = matched

\* The changes of the commit: the paths of the File objects and of the
\* Directory objects whose action is not "none".
Changes(tree) ==
    {FilePath(tree, d, i) : <<d, i>> \in
        {<<d, i>> \in (1..Len(tree)) \X (1..MaxFiles + 1) : i <= Len(tree[d].files)}}
    \cup {tree[d].path : d \in {e \in 1..Len(tree) : tree[e].action # "none"}}

\* C9, for a commit with at least one change: the greatest common directory's
\* path is a prefix of every change's path, and no Directory strictly below
\* the greatest common directory has a path that is a prefix of them all.
C9_DeepestDirectoryOfAllChanges ==
    LET gcd == greatestCommonDirectory(dirs)
    IN Changes(dirs) # {} =>
        /\ \A c \in Changes(dirs) : IsPrefix(gcd, c)
        /\ \A d \in 1..Len(dirs) :
            (dirs[d].path # gcd /\ IsPrefix(gcd, dirs[d].path)) =>
                \E c \in Changes(dirs) : ~IsPrefix(dirs[d].path, c)

\* The files of a list, each with the number of times it is in the list.
BagOfFiles(fs) ==
    [f \in {fs[i] : i \in 1..Len(fs)} |->
        Cardinality({i \in 1..Len(fs) : fs[i] = f})]

SortedByName(fs) ==
    \A i, j \in 1..Len(fs) : i < j => StrLeq(fs[i].name, fs[j].name)

\* This step is the construction File(name, d, action).
NewFileStep(name, d, action) ==
    /\ last'.op = "File"
    /\ \E r \in {NewFile(dirs, name, d, action)} :
        dirs' = r.tree /\ last' = Call("File", r.outcome, d, None)

\* C10, at every File construction that registers a file: the directory's
\* list afterwards holds the files it held and the new one, sorted by name;
\* the other directories are as they were.
C10_Step ==
    \A name \in FileNames, d \in 1..Len(dirs), action \in Actions :
        (~HasSlash(name) /\ NewFileStep(name, d, action)) =>
            /\ last'.outcome = OK
            /\ SortedByName(dirs'[d].files)
            /\ BagOfFiles(dirs'[d].files) =
                   BagOfFiles(dirs[d].files)
                       (+) SetToBag({FileFields(name, action)})
            /\ Len(dirs'[d].files) = Len(dirs[d].files) + 1
            /\ \A e \in 1..Len(dirs) : e # d => dirs'[e] = dirs[e]

\* C10: after every Directory.addFile, in any order of insertions, the
\* directory's file list is sorted by name ascending and holds exactly the
\* files inserted so far.
C10_FilesSortedAndComplete ==
    /\ [](\A d \in 1..Len(dirs) : SortedByName(dirs[d].files))
    /\ [][C10_Step]_vars

\* C10's case: File constructions have filled the root's list with two files
\* named "a" and one named "b".
C10_Witness ==
    /\ last.op = "File"
    /\ Len(dirs[1].files) = 3
    /\ dirs[1].files[1] = FileFields(<<"a">>, "removed")
    /\ dirs[1].files[2] = FileFields(<<"a">>, "added")
    /\ dirs[1].files[3].name = <<"b">>

\* The lines of the diff stored on a file, without their ends of line.
StoredLines(text) ==
    LET pieces == splitOn(text, NL) IN SubSeq(pieces, 1, Len(pieces) - 1)

\* The body of the diff stored on a file: what follows the rule and the two
\* header lines.
StoredBody(text) == SubSeq(StoredLines(text), 4, Len(StoredLines(text)))

\* The added lines of a diff's body: those that begin with "+".
AddedLines(body) ==
    Cardinality({i \in 1..Len(body) : Len(body[i]) > 0 /\ body[i][1] = "+"})

\* The removed lines of a diff's body: those that begin with "-".
RemovedLines(body) ==
    Cardinality({i \in 1..Len(body) : Len(body[i]) > 0 /\ body[i][1] = "-"})

\* C11: the delta stored on a file is "+A -R", A exactly the number of added
\* lines and R exactly the number of removed lines of the file's diff: every
\* line of the diff's body that begins with "+" or "-" is counted, the two
\* header lines before the body are not.
C11_DeltaCountsAddedAndRemoved ==
    \A d \in 1..Len(dirs) : \A i \in 1..Len(dirs[d].files) :
        \A f \in {dirs[d].files[i]} :
            f.delta # Unset =>
                /\ f.diff # Unset
                /\ f.delta =
                       Value(formatDelta(AddedLines(StoredBody(f.diff[1])),
                                         RemovedLines(StoredBody(f.diff[1]))))

\* The well-formed file paths: a well-formed directory path, then a name.
WellFormedFilePath(p) ==
    /\ Len(p) > 1
    /\ p[Len(p)] # SLASH
    /\ \E k \in 1..(Len(p) - 1) :
        /\ re_path_match(SubSeq(p, 1, k))
        /\ ~HasSlash(SubSeq(p, k + 1, Len(p)))

\* The file paths of the tree.
FilePathSet(tree) ==
    {FilePath(tree, d, i) : <<d, i>> \in
        {<<d, i>> \in (1..Len(tree)) \X (1..MaxFiles + 1) : i <= Len(tree[d].files)}}

\* C12: Model.file(path) with a well-formed file path, the parent directory
\* in the tree or not, returns and leaves the tree as it was, with the same
\* Directory and File objects; when the tree has no file of that path it
\* returns None.
C12_Step ==
    \A p \in PathStrings :
        (WellFormedFilePath(p) /\ FileStep(p)) =>
            /\ last'.outcome = OK
            /\ dirs' = dirs
            /\ p \notin FilePathSet(dirs) => last'.idx = None

C12_FileIsPureLookup == [][C12_Step]_vars

====
